---- MODULE Spec2Model ----
(***************************************************************************)
(* Model of packages/logger/src/mylogger/core.py: the process-wide         *)
(* configuration (format, excluded levels, configured flag, the structlog  *)
(* processor chain installed by configure), the log_* helpers, get_logger, *)
(* the module-level lazy `logger`, and the task-local ambient context.     *)
(*                                                                         *)
(* Python strings that the code converts (lower, strip, split) are         *)
(* sequences of one-character strings, so that the conversions are         *)
(* computed.  Field names, messages and opaque field values are TLA+       *)
(* strings.  Optional values (None / a value) are sets of at most one      *)
(* element.                                                                *)
(***************************************************************************)
EXTENDS Integers, Sequences, FiniteSets, TLC

(***************************************************************************)
(* Bounds                                                                  *)
(***************************************************************************)
\* number of log-emitting calls started in one behaviour of Spec
MaxCalls == 2
\* number of log-emitting calls started in one behaviour of SpecConc
MaxConcCalls == 2
\* number of log-emitting calls started in one behaviour of SpecFields
MaxFieldCalls == 1
\* number of log-emitting calls started in one behaviour of SpecCtx
MaxCtxCalls == 2
\* number of log-emitting calls started in one behaviour of SpecIso
MaxIsoCalls == 2

(***************************************************************************)
(* Python values                                                           *)
(***************************************************************************)
None == {}
Some(x) == {x}
Val(o) == CHOOSE x \in o : TRUE

s_console == <<"c","o","n","s","o","l","e">>
s_json    == <<"j","s","o","n">>
s_JSON    == <<"J","S","O","N">>
s_Console == <<"C","o","n","s","o","l","e">>
s_debug   == <<"d","e","b","u","g">>
s_info    == <<"i","n","f","o">>
s_INFO    == <<"I","N","F","O">>
s_warning == <<"w","a","r","n","i","n","g">>
s_error   == <<"e","r","r","o","r">>
s_Error   == <<"E","r","r","o","r">>
s_empty   == <<>>
s_XML     == <<"X","M","L">>
s_xml     == <<"x","m","l">>
s_Yaml    == <<"Y","a","m","l">>
s_yaml    == <<"y","a","m","l">>
s_console_sp == <<" ","c","o","n","s","o","l","e">>

UpperAlpha == <<"A","B","C","D","E","F","G","H","I","J","K","L","M",
                "N","O","P","Q","R","S","T","U","V","W","X","Y","Z">>
LowerAlpha == <<"a","b","c","d","e","f","g","h","i","j","k","l","m",
                "n","o","p","q","r","s","t","u","v","w","x","y","z">>

\* str.lower() on one character
LowerChar(c) ==
    IF \E i \in 1..26 : UpperAlpha[i] = c
    THEN LowerAlpha[CHOOSE i \in 1..26 : UpperAlpha[i] = c]
    ELSE c

\* str.lower()
Lower(s) == [i \in 1..Len(s) |-> LowerChar(s[i])]

\* str.strip() removes whitespace: space, tab, newline
IsSpace(c) == c \in {" ", "\t", "\n"}

RECURSIVE LStrip(_)
LStrip(s) == IF s # <<>> /\ IsSpace(Head(s)) THEN LStrip(Tail(s)) ELSE s

RECURSIVE RStrip(_)
RStrip(s) ==
    IF s # <<>> /\ IsSpace(s[Len(s)]) THEN RStrip(SubSeq(s, 1, Len(s) - 1)) ELSE s

\* str.strip()
Strip(s) == RStrip(LStrip(s))

\* str.split(","): the sequence of the pieces between the commas
RECURSIVE SplitFrom(_, _)
SplitFrom(s, cur) ==
    IF s = <<>> THEN <<cur>>
    ELSE IF Head(s) = "," THEN <<cur>> \o SplitFrom(Tail(s), <<>>)
    ELSE SplitFrom(Tail(s), Append(cur, Head(s)))

Split(s) == SplitFrom(s, <<>>)

Range(f) == {f[x] : x \in DOMAIN f}

\* the empty dict
EmptyDict == [k \in {} |-> ""]


(***************************************************************************)
(* State                                                                   *)
(***************************************************************************)
Threads == {1, 2}

VARIABLES
    environ,         \* os.environ: MYLOGGER_FORMAT and MYLOGGER_EXCLUDE, each None or a string
    log_format,      \* core._log_format: None or a string
    exclude_levels,  \* core._exclude_levels: None or a set of strings
    configured,      \* core._configured
    processors,      \* the chain structlog.configure installed: "default", "console" or "json"
    lazy_instance,   \* logger._instance is not None
    holds,           \* holds[t]: thread t keeps a logger that get_logger returned
    ctx,             \* ctx[t]: the structlog context variables of thread t
    out,             \* the lines printed to stdout, oldest first
    ncalls,          \* number of log-emitting calls started
    last_configure,  \* history: arguments of the configure call that returned last,
                     \* and os.environ at its return
    unbound,         \* history: unbound[t] = the keys thread t had bound and then removed
                     \* with unbind_context or clear_context, and has not bound again
    pc,              \* pc[t]: where thread t is in its current call
    frame            \* frame[t]: arguments and locals of thread t's current (or last) call

vars == <<environ, log_format, exclude_levels, configured, processors,
          lazy_instance, holds, ctx, out, ncalls, last_configure, unbound, pc, frame>>

cfgVars == <<log_format, exclude_levels, configured, processors>>

NoFrame ==
    [op |-> "none", id |-> 0, level |-> s_empty, msg |-> "", kw |-> EmptyDict,
     tag |-> EmptyDict, fmt |-> None, excl |-> None, ret |-> "idle",
     sel |-> "none", procs |-> "none", ev |-> EmptyDict, exclude |-> {},
     steps |-> <<>>, stage |-> "none", result |-> "none"]

Init ==
    /\ environ = [MYLOGGER_FORMAT |-> None, MYLOGGER_EXCLUDE |-> None]
    /\ log_format = None
    /\ exclude_levels = None
    /\ configured = FALSE
    /\ processors = "default"
    /\ lazy_instance = FALSE
    /\ holds = [t \in Threads |-> FALSE]
    /\ ctx = [t \in Threads |-> EmptyDict]
    /\ out = <<>>
    /\ ncalls = 0
    /\ last_configure = None
    /\ unbound = [t \in Threads |-> {}]
    /\ pc = [t \in Threads |-> "idle"]
    /\ frame = [t \in Threads |-> NoFrame]

(***************************************************************************)
(* Configuration resolution                                                *)
(***************************************************************************)
\* os.environ.get(name, default)
EnvGet(env, name, default) == IF env[name] = None THEN default ELSE Val(env[name])

\* _get_format()
GetFormat(fmt, env) ==
    IF fmt # None THEN Val(fmt)
    ELSE Lower(EnvGet(env, "MYLOGGER_FORMAT", s_console))

\* mutation: the entries are lowercased but not trimmed
ParseExclude_noStrip(exclude_str) ==
    LET parts == Split(exclude_str)
    IN  {Lower(parts[i]) : i \in {j \in 1..Len(parts) : Strip(parts[j]) # <<>>}}

\* the set comprehension of _get_exclude_levels over the split string
ParseExclude(exclude_str) ==
    LET parts == Split(exclude_str)
    IN  {Lower(Strip(parts[i])) : i \in {j \in 1..Len(parts) : Strip(parts[j]) # <<>>}}

\* _get_exclude_levels()
GetExcludeLevels(excl, env) ==
    IF excl # None THEN Val(excl)
    ELSE LET exclude_str == EnvGet(env, "MYLOGGER_EXCLUDE", s_empty)
         IN  IF exclude_str = <<>> THEN {} ELSE ParseExclude(exclude_str)

\* mutation: the level is read from a key the event dict does not have
FilterDrops_wrongKey(exclude, event_dict) ==
    LET level == IF "levelname" \in DOMAIN event_dict THEN event_dict["levelname"]
                 ELSE s_empty
    IN  exclude # {} /\ Lower(level) \in exclude

\* _filter_by_level, line 51: TRUE when the event is dropped (structlog.DropEvent)
FilterDrops(exclude, event_dict) ==
    LET level == IF "level" \in DOMAIN event_dict THEN event_dict["level"] ELSE s_empty
    IN  exclude # {} /\ Lower(level) \in exclude

\* configure, lines 66-67: the value _log_format has after them
SetFormat(cur, format) == IF format # None THEN Some(Lower(Val(format))) ELSE cur

\* mutation: an empty list is treated like an omitted argument (if exclude:)
SetExclude_emptyAsOmitted(cur, exclude) ==
    IF exclude # None /\ Val(exclude) # <<>>
    THEN Some({Lower(l) : l \in Range(Val(exclude))}) ELSE cur

\* configure, lines 69-70: the value _exclude_levels has after them
SetExclude(cur, exclude) ==
    IF exclude # None THEN Some({Lower(l) : l \in Range(Val(exclude))}) ELSE cur

\* mutation: the JSON renderer is selected only for "json", console otherwise
SelectRenderer_jsonOnly(fmt, env) == IF GetFormat(fmt, env) = s_json THEN "json" ELSE "console"

\* configure, line 80: which of the two structlog.configure calls is made
SelectRenderer(fmt, env) == IF GetFormat(fmt, env) = s_console THEN "console" ELSE "json"

(***************************************************************************)
(* The processor chain (configure, lines 72-78 and 101)                    *)
(***************************************************************************)
\* the value TimeStamper(fmt="iso") attaches
Now == "now"

\* the semantic helpers: the method they call and the tag they pass
Helpers ==
    [log_success    |-> [level |-> s_info,    tag |-> ("status" :> "success")],
     log_error      |-> [level |-> s_error,   tag |-> EmptyDict],
     log_warning    |-> [level |-> s_warning, tag |-> EmptyDict],
     log_info       |-> [level |-> s_info,    tag |-> EmptyDict],
     log_start      |-> [level |-> s_info,    tag |-> ("phase" :> "start")],
     log_end        |-> [level |-> s_info,    tag |-> ("phase" :> "end")],
     log_db         |-> [level |-> s_info,    tag |-> ("component" :> "database")],
     log_progress   |-> [level |-> s_info,    tag |-> ("phase" :> "progress")],
     log_completion |-> [level |-> s_info,    tag |-> ("phase" :> "complete")],
     log_extract    |-> [level |-> s_info,    tag |-> ("operation" :> "extract")],
     log_input      |-> [level |-> s_info,    tag |-> ("direction" :> "input")],
     log_output     |-> [level |-> s_info,    tag |-> ("direction" :> "output")]]

HelperNames == DOMAIN Helpers

\* Python's argument binding of logger.<method>(msg, <tag>=..., **kwargs):
\* a keyword given twice, or a keyword named like the positional `event`
\* parameter of the bound logger's method, is a TypeError
RaisesTypeError(tag, kw) == (DOMAIN kw) \cap (DOMAIN tag \cup {"event"}) # {}

\* BoundLoggerBase._process_event: the event dict handed to the processors
BuildEvent(msg, tag, kw) == ("event" :> msg) @@ tag @@ kw

\* structlog.contextvars.merge_contextvars: event_dict.setdefault per bound key
MergeContextvars(context, event_dict) == event_dict @@ context

\* mutation: the level is attached only when the event has no level key yet
AddLogLevel_setdefault(level, event_dict) == event_dict @@ ("level" :> level)

\* structlog.processors.add_log_level
AddLogLevel(level, event_dict) == ("level" :> level) @@ event_dict

\* structlog.processors.TimeStamper(fmt="iso")
TimeStamper(event_dict) == ("timestamp" :> Now) @@ event_dict

\* structlog.stdlib.ExtraAdder(): copies the extras of event_dict["_record"] when
\* that key holds a logging.LogRecord; events made by the calls of this module
\* carry no record, and the processor returns the dict it was given
ExtraAdder(event_dict) == event_dict

\* structlog.processors.dict_tracebacks: replaces exc_info by a structured
\* traceback; the events of this model carry no exc_info and pass unchanged
DictTracebacks(event_dict) == event_dict

\* mutation: the level filter is the last of the shared processors
SharedProcessors_filterLast ==
    <<"merge_contextvars", "add_log_level", "TimeStamper", "ExtraAdder", "_filter_by_level">>

\* configure, lines 72-78: shared_processors
SharedProcessors ==
    <<"merge_contextvars", "add_log_level", "_filter_by_level", "TimeStamper", "ExtraAdder">>

\* configure, lines 85 and 100-101: what follows the shared processors
RendererProcessors(renderer) ==
    IF renderer = "json" THEN <<"dict_tracebacks", "JSONRenderer">>
    ELSE <<"ConsoleRenderer">>

\* the position of _filter_by_level in the chain
FilterIndex == CHOOSE i \in DOMAIN SharedProcessors : SharedProcessors[i] = "_filter_by_level"

\* the shared processors that run before and after _filter_by_level
BeforeFilter == SubSeq(SharedProcessors, 1, FilterIndex - 1)

AfterFilter == SubSeq(SharedProcessors, FilterIndex + 1, Len(SharedProcessors))

\* one processor of the chain applied to the event dict
ApplyProcessor(name, context, level, event_dict) ==
    CASE name = "merge_contextvars" -> MergeContextvars(context, event_dict)
      [] name = "add_log_level"     -> AddLogLevel(level, event_dict)
      [] name = "TimeStamper"       -> TimeStamper(event_dict)
      [] name = "ExtraAdder"        -> ExtraAdder(event_dict)
      [] name = "dict_tracebacks"   -> DictTracebacks(event_dict)
      [] OTHER                      -> event_dict

\* BoundLoggerBase._process_event: the processors are called one after the
\* other, each with the dict the one before returned
RECURSIVE RunProcessors(_, _, _, _)
RunProcessors(names, context, level, event_dict) ==
    IF names = <<>> THEN event_dict
    ELSE RunProcessors(Tail(names), context, level,
                       ApplyProcessor(Head(names), context, level, event_dict))

\* the renderer and PrintLogger: the line appended to stdout
Line(id, t, renderer, event_dict) ==
    [id |-> id, task |-> t, renderer |-> renderer, obj |-> event_dict]

(***************************************************************************)
(* Ambient context                                                         *)
(***************************************************************************)
\* bind_context(**kwargs)
BindContextvars(context, kwargs) == kwargs @@ context

\* mutation: unbinding removes every bound key
UnbindContextvars_all(context, keys) == EmptyDict

\* unbind_context(*keys)
UnbindContextvars(context, keys) == [k \in DOMAIN context \ keys |-> context[k]]

\* clear_context()
ClearContextvars(context) == EmptyDict

(***************************************************************************)
(* Calls.  A call starts when its thread is idle; frame[t] keeps the       *)
(* arguments and locals of the call and stays readable after it returned,  *)
(* until the thread's next call.                                           *)
(***************************************************************************)
Idle(t) == pc[t] = "idle"

Goto(t, label) == pc' = [pc EXCEPT ![t] = label]

\* configure(format, exclude) is entered: lines 66-67
ConfigureEnter(t, f) ==
    /\ log_format' = SetFormat(log_format, f.fmt)
    /\ frame' = [frame EXCEPT ![t] = f]
    /\ Goto(t, "cfg_excl")
    /\ UNCHANGED <<environ, exclude_levels, configured, processors,
                   lazy_instance, holds, ctx, out, ncalls, last_configure, unbound>>

\* configure(format=..., exclude=...) called by the application
Configure(t, format, exclude) ==
    /\ Idle(t)
    /\ ConfigureEnter(t, [NoFrame EXCEPT !.op = "configure", !.fmt = format,
                                         !.excl = exclude, !.result = "running"])

\* configure, lines 69-70
CfgExclude(t) ==
    /\ pc[t] = "cfg_excl"
    /\ exclude_levels' = SetExclude(exclude_levels, frame[t].excl)
    /\ Goto(t, "cfg_sel")
    /\ UNCHANGED <<environ, log_format, configured, processors,
                   lazy_instance, holds, ctx, out, ncalls, frame, last_configure, unbound>>

\* configure, line 80: _get_format() == "console"
CfgSelect(t) ==
    /\ pc[t] = "cfg_sel"
    /\ frame' = [frame EXCEPT ![t].sel = SelectRenderer(log_format, environ)]
    /\ Goto(t, "cfg_install")
    /\ UNCHANGED <<environ, cfgVars, lazy_instance, holds, ctx, out, ncalls, last_configure, unbound>>

\* configure, lines 82-107: structlog.configure(processors=[...])
CfgInstall(t) ==
    /\ pc[t] = "cfg_install"
    /\ processors' = frame[t].sel
    /\ Goto(t, "cfg_flag")
    /\ UNCHANGED <<environ, log_format, exclude_levels, configured,
                   lazy_instance, holds, ctx, out, ncalls, frame, last_configure, unbound>>

\* configure, line 109, and the return to the caller
SetConfigured(t) ==
    /\ pc[t] = "cfg_flag"
    /\ configured' = TRUE
    /\ Goto(t, frame[t].ret)
    /\ frame' = [frame EXCEPT ![t].result =
                    IF frame[t].ret = "idle" THEN "returned" ELSE @]
    /\ UNCHANGED <<environ, log_format, exclude_levels, processors,
                   lazy_instance, holds, ctx, out, ncalls, unbound>>

CfgFlag(t) == SetConfigured(t) /\ UNCHANGED last_configure

\* the same step, with the call recorded in the history variable
CfgFlagRecorded(t) ==
    /\ SetConfigured(t)
    /\ last_configure' = Some([fmt |-> frame[t].fmt, excl |-> frame[t].excl,
                               env |-> environ])

\* mutation: _ensure_configured never calls configure
NeedsConfigure_never(flag) == FALSE

\* _ensure_configured(): TRUE when configure() has to be called
NeedsConfigure(flag) == ~flag

\* _ensure_configured(), lines 115-116
EnsureConfigured(t) ==
    /\ pc[t] = "ensure"
    /\ IF NeedsConfigure(configured)
       THEN ConfigureEnter(t, frame[t])
       ELSE /\ Goto(t, frame[t].ret)
            /\ UNCHANGED <<environ, cfgVars, lazy_instance, holds, ctx, out,
                           ncalls, frame, last_configure, unbound>>

\* the frame of a log-emitting call
EmitFrame(op, level, msg, tag, kw, ret) ==
    [NoFrame EXCEPT !.op = op, !.id = ncalls + 1, !.level = level, !.msg = msg,
                    !.tag = tag, !.kw = kw, !.ret = ret, !.result = "running"]

\* log_<helper>(msg, **kwargs) is called: lines 151-220; the model starts no
\* log-emitting call once max of them were started
LogHelper(t, h, msg, kw, max) ==
    /\ Idle(t)
    /\ ncalls < max
    /\ ncalls' = ncalls + 1
    /\ frame' = [frame EXCEPT ![t] =
                    EmitFrame(h, Helpers[h].level, msg, Helpers[h].tag, kw, "call")]
    /\ Goto(t, "ensure")
    /\ UNCHANGED <<environ, cfgVars, lazy_instance, holds, ctx, out, last_configure, unbound>>

\* get_logger(name) is called: lines 119-122
GetLogger(t) ==
    /\ Idle(t)
    /\ frame' = [frame EXCEPT ![t] =
                    [NoFrame EXCEPT !.op = "get_logger", !.ret = "got",
                                    !.result = "running"]]
    /\ Goto(t, "ensure")
    /\ UNCHANGED <<environ, cfgVars, lazy_instance, holds, ctx, out, ncalls, last_configure, unbound>>

\* get_logger returns structlog.get_logger(name), line 122
GetLoggerReturn(t) ==
    /\ pc[t] = "got"
    /\ holds' = [holds EXCEPT ![t] = TRUE]
    /\ frame' = [frame EXCEPT ![t].result = "returned"]
    /\ Goto(t, "idle")
    /\ UNCHANGED <<environ, cfgVars, lazy_instance, ctx, out, ncalls, last_configure, unbound>>

\* log.<level>(msg, **kwargs) on a logger that get_logger returned earlier
HeldCall(t, level, msg, kw, max) ==
    /\ Idle(t)
    /\ holds[t]
    /\ ncalls < max
    /\ ncalls' = ncalls + 1
    /\ frame' = [frame EXCEPT ![t] =
                    EmitFrame("held", level, msg, EmptyDict, kw, "call")]
    /\ Goto(t, "call")
    /\ UNCHANGED <<environ, cfgVars, lazy_instance, holds, ctx, out, last_configure, unbound>>

\* logger.<level>(msg, **kwargs) on the module-level _LazyLogger: line 138
LazyCall(t, level, msg, kw, max) ==
    /\ Idle(t)
    /\ ncalls < max
    /\ ncalls' = ncalls + 1
    /\ frame' = [frame EXCEPT ![t] =
                    EmitFrame("logger", level, msg, EmptyDict, kw, "lazy_set")]
    /\ Goto(t, IF lazy_instance THEN "call" ELSE "ensure")
    /\ UNCHANGED <<environ, cfgVars, lazy_instance, holds, ctx, out, last_configure, unbound>>

\* _LazyLogger.__getattr__, line 139: self._instance = _get_default_logger()
LazySet(t) ==
    /\ pc[t] = "lazy_set"
    /\ lazy_instance' = TRUE
    /\ Goto(t, "call")
    /\ UNCHANGED <<environ, cfgVars, holds, ctx, out, ncalls, frame, last_configure, unbound>>

\* the method call on the logger: the lazy proxy binds the processor chain that
\* is installed now, Python binds the arguments, and the chain runs up to
\* _filter_by_level (lines 73-74)
Call(t) ==
    /\ pc[t] = "call"
    /\ IF RaisesTypeError(frame[t].tag, frame[t].kw)
       THEN /\ frame' = [frame EXCEPT ![t].result = "TypeError"]
            /\ Goto(t, "idle")
       ELSE /\ frame' = [frame EXCEPT
                    ![t].procs = processors,
                    ![t].stage = "levelled",
                    ![t].steps = BeforeFilter,
                    ![t].ev = RunProcessors(BeforeFilter, ctx[t], frame[t].level,
                                  BuildEvent(frame[t].msg, frame[t].tag, frame[t].kw))]
            /\ Goto(t, "filter")
    /\ UNCHANGED <<environ, cfgVars, lazy_instance, holds, ctx, out, ncalls, last_configure, unbound>>

\* _filter_by_level (line 75 of the chain, lines 50-53); structlog's default
\* chain, used when nothing was configured, has no such processor
Filter(t) ==
    /\ pc[t] = "filter"
    /\ LET exclude == IF frame[t].procs = "default" THEN {}
                      ELSE GetExcludeLevels(exclude_levels, environ)
           steps == IF frame[t].procs = "default" THEN frame[t].steps
                    ELSE Append(frame[t].steps, "_filter_by_level")
       IN  IF FilterDrops(exclude, frame[t].ev)
           THEN /\ frame' = [frame EXCEPT ![t].exclude = exclude,
                                          ![t].steps = steps,
                                          ![t].stage = "dropped",
                                          ![t].result = "returned"]
                /\ Goto(t, "idle")
           ELSE /\ frame' = [frame EXCEPT ![t].exclude = exclude,
                                          ![t].steps = steps,
                                          ![t].stage = "filtered"]
                /\ Goto(t, "render")
    /\ UNCHANGED <<environ, cfgVars, lazy_instance, holds, ctx, out, ncalls, last_configure, unbound>>

\* the processors after _filter_by_level, the renderer and the print
\* (lines 76-77, 85, 100-101)
Render(t) ==
    /\ pc[t] = "render"
    /\ LET rest == AfterFilter \o RendererProcessors(frame[t].procs)
           event_dict == RunProcessors(rest, ctx[t], frame[t].level, frame[t].ev)
       IN  /\ out' = Append(out, Line(frame[t].id, t, frame[t].procs, event_dict))
           /\ frame' = [frame EXCEPT ![t].ev = event_dict,
                                     ![t].steps = frame[t].steps \o rest,
                                     ![t].stage = "rendered",
                                     ![t].result = "returned"]
    /\ Goto(t, "idle")
    /\ UNCHANGED <<environ, cfgVars, lazy_instance, holds, ctx, ncalls, last_configure, unbound>>

\* mutation: the context is one dict shared by all threads
BindContext_shared(t, kwargs) ==
    /\ Idle(t)
    /\ ctx' = [u \in Threads |-> BindContextvars(ctx[u], kwargs)]
    /\ unbound' = [unbound EXCEPT ![t] = @ \ DOMAIN kwargs]
    /\ frame' = [frame EXCEPT ![t] =
                    [NoFrame EXCEPT !.op = "bind_context", !.kw = kwargs,
                                    !.result = "returned"]]
    /\ UNCHANGED <<environ, cfgVars, lazy_instance, holds, out, ncalls, pc, last_configure>>

\* bind_context(**kwargs): lines 228-230
BindContext(t, kwargs) ==
    /\ Idle(t)
    /\ ctx' = [ctx EXCEPT ![t] = BindContextvars(ctx[t], kwargs)]
    /\ unbound' = [unbound EXCEPT ![t] = @ \ DOMAIN kwargs]
    /\ frame' = [frame EXCEPT ![t] =
                    [NoFrame EXCEPT !.op = "bind_context", !.kw = kwargs,
                                    !.result = "returned"]]
    /\ UNCHANGED <<environ, cfgVars, lazy_instance, holds, out, ncalls, pc, last_configure>>

\* mutation: unbinding a key that is not bound raises KeyError
UnbindContext_raises(t, keys) ==
    /\ Idle(t)
    /\ ctx' = [ctx EXCEPT ![t] = IF keys \subseteq DOMAIN ctx[t]
                                 THEN UnbindContextvars(ctx[t], keys) ELSE @]
    /\ unbound' = [unbound EXCEPT ![t] = IF keys \subseteq DOMAIN ctx[t]
                                         THEN @ \cup keys ELSE @]
    /\ frame' = [frame EXCEPT ![t] =
                    [NoFrame EXCEPT !.op = "unbind_context",
                                    !.kw = [k \in keys |-> ""],
                                    !.result = IF keys \subseteq DOMAIN ctx[t]
                                               THEN "returned" ELSE "KeyError"]]
    /\ UNCHANGED <<environ, cfgVars, lazy_instance, holds, out, ncalls, pc, last_configure>>

\* unbind_context(*keys): lines 238-240
UnbindContext(t, keys) ==
    /\ Idle(t)
    /\ ctx' = [ctx EXCEPT ![t] = UnbindContextvars(ctx[t], keys)]
    /\ unbound' = [unbound EXCEPT ![t] = @ \cup (keys \cap DOMAIN ctx[t])]
    /\ frame' = [frame EXCEPT ![t] =
                    [NoFrame EXCEPT !.op = "unbind_context",
                                    !.kw = [k \in keys |-> ""],
                                    !.result = "returned"]]
    /\ UNCHANGED <<environ, cfgVars, lazy_instance, holds, out, ncalls, pc, last_configure>>

\* mutation: clearing the context also resets the configured flag
ClearContext_reset(t) ==
    /\ Idle(t)
    /\ ctx' = [ctx EXCEPT ![t] = ClearContextvars(ctx[t])]
    /\ configured' = FALSE
    /\ unbound' = [unbound EXCEPT ![t] = @ \cup DOMAIN ctx[t]]
    /\ frame' = [frame EXCEPT ![t] =
                    [NoFrame EXCEPT !.op = "clear_context", !.result = "returned"]]
    /\ UNCHANGED <<environ, log_format, exclude_levels, processors, lazy_instance,
                   holds, out, ncalls, pc, last_configure>>

\* clear_context(): lines 233-235
ClearContext(t) ==
    /\ Idle(t)
    /\ ctx' = [ctx EXCEPT ![t] = ClearContextvars(ctx[t])]
    /\ unbound' = [unbound EXCEPT ![t] = @ \cup DOMAIN ctx[t]]
    /\ frame' = [frame EXCEPT ![t] =
                    [NoFrame EXCEPT !.op = "clear_context", !.result = "returned"]]
    /\ UNCHANGED <<environ, cfgVars, lazy_instance, holds, out, ncalls, pc, last_configure>>

\* the application (or its test, with patch.dict) changes os.environ
SetEnv(t, name, value) ==
    /\ Idle(t)
    /\ environ[name] # value
    /\ environ' = [environ EXCEPT ![name] = value]
    /\ frame' = [frame EXCEPT ![t] =
                    [NoFrame EXCEPT !.op = "setenv", !.result = "returned"]]
    /\ UNCHANGED <<cfgVars, lazy_instance, holds, ctx, out, ncalls, pc, last_configure, unbound>>

(***************************************************************************)
(* Specifications                                                          *)
(***************************************************************************)
s_env_exclude == <<" ","E","r","r","o","r",",","i","n","f","o">>

\* Spec: one thread; configuration, environment changes and emissions through
\* the helpers, a logger from get_logger and the module-level logger
Formats == {None, Some(s_JSON), Some(s_console)}
Excludes == {None, Some(<<>>), Some(<<s_INFO>>)}
EnvFormats == {None, Some(s_json)}
EnvExcludes == {None, Some(s_env_exclude)}

Next ==
    \E t \in {1} :
        \/ \E f \in Formats, x \in Excludes : Configure(t, f, x)
        \/ CfgExclude(t)
        \/ CfgSelect(t)
        \/ CfgInstall(t)
        \/ CfgFlag(t)
        \/ EnsureConfigured(t)
        \/ \E h \in {"log_info", "log_error"} : LogHelper(t, h, "m", EmptyDict, MaxCalls)
        \/ GetLogger(t)
        \/ GetLoggerReturn(t)
        \/ \E l \in {s_debug, s_info} : HeldCall(t, l, "m", EmptyDict, MaxCalls)
        \/ LazyCall(t, s_warning, "m", EmptyDict, MaxCalls)
        \/ LazySet(t)
        \/ Call(t)
        \/ Filter(t)
        \/ Render(t)
        \/ \E v \in EnvFormats : SetEnv(t, "MYLOGGER_FORMAT", v)
        \/ \E v \in EnvExcludes : SetEnv(t, "MYLOGGER_EXCLUDE", v)

Spec == Init /\ [][Next]_vars

\* SpecConc: two threads whose calls interleave statement by statement; thread 1
\* reconfigures and logs through the helpers, thread 2 logs through every path
NextConc ==
    \/ \E f \in {Some(s_JSON), Some(s_console)}, x \in {None, Some(<<s_INFO>>)} :
           Configure(1, f, x)
    \/ \E t \in Threads :
        \/ CfgExclude(t)
        \/ CfgSelect(t)
        \/ CfgInstall(t)
        \/ CfgFlag(t)
        \/ EnsureConfigured(t)
        \/ \E h \in {"log_info", "log_error"} : LogHelper(t, h, "m", EmptyDict, MaxConcCalls)
        \/ Call(t)
        \/ Filter(t)
        \/ Render(t)
    \/ GetLogger(2)
    \/ GetLoggerReturn(2)
    \/ HeldCall(2, s_info, "m", EmptyDict, MaxConcCalls)
    \/ LazyCall(2, s_info, "m", EmptyDict, MaxConcCalls)
    \/ LazySet(2)

SpecConc == Init /\ [][NextConc]_vars

\* SpecLast: one thread, with the configure call that returned last recorded
NextLast ==
    \E t \in {1} :
        \/ \E f \in {None, Some(s_JSON)}, x \in {None, Some(<<s_INFO>>)} : Configure(t, f, x)
        \/ CfgExclude(t)
        \/ CfgSelect(t)
        \/ CfgInstall(t)
        \/ CfgFlagRecorded(t)
        \/ EnsureConfigured(t)
        \/ \E h \in {"log_info", "log_error"} : LogHelper(t, h, "m", EmptyDict, MaxCalls)
        \/ GetLogger(t)
        \/ GetLoggerReturn(t)
        \/ HeldCall(t, s_info, "m", EmptyDict, MaxCalls)
        \/ LazyCall(t, s_info, "m", EmptyDict, MaxCalls)
        \/ LazySet(t)
        \/ Call(t)
        \/ Filter(t)
        \/ Render(t)
        \/ \E v \in EnvExcludes : SetEnv(t, "MYLOGGER_EXCLUDE", v)

SpecLast == Init /\ [][NextLast]_vars

\* SpecFields: one thread; every helper with caller-supplied fields, among them
\* fields named like a helper's tag and like the keys the chain sets
FieldSets ==
    {EmptyDict,
     ("user_id" :> "123") @@ ("action" :> "login"),
     ("status" :> "custom"), ("phase" :> "custom"), ("component" :> "custom"),
     ("operation" :> "custom"), ("direction" :> "custom"),
     ("event" :> "custom"), ("level" :> s_debug), ("timestamp" :> "custom")}

Messages == {"m1", "m2"}

NextFields ==
    \E t \in {1} :
        \/ \E f \in {Some(s_json), Some(s_console)}, x \in {None, Some(<<s_INFO>>)} :
               Configure(t, f, x)
        \/ CfgExclude(t)
        \/ CfgSelect(t)
        \/ CfgInstall(t)
        \/ CfgFlag(t)
        \/ EnsureConfigured(t)
        \/ \E h \in HelperNames, m \in Messages, kw \in FieldSets :
               LogHelper(t, h, m, kw, MaxFieldCalls)
        \/ Call(t)
        \/ Filter(t)
        \/ Render(t)

SpecFields == Init /\ [][NextFields]_vars

\* SpecCtx: one thread that binds, unbinds, clears and emits
CtxBinds == {("rid" :> "r1"), ("rid" :> "r2"), ("uid" :> "u1"), ("level" :> s_debug)}

CtxUnbinds == {{"rid"}, {"uid", "level"}}

NextCtx ==
    \E t \in {1} :
        \/ Configure(t, Some(s_json), None)
        \/ CfgExclude(t)
        \/ CfgSelect(t)
        \/ CfgInstall(t)
        \/ CfgFlag(t)
        \/ EnsureConfigured(t)
        \/ \E kw \in CtxBinds : BindContext(t, kw)
        \/ \E keys \in CtxUnbinds : UnbindContext(t, keys)
        \/ ClearContext(t)
        \/ \E kw \in {EmptyDict, ("rid" :> "own")} :
               LogHelper(t, "log_info", "m", kw, MaxCtxCalls)
        \/ Call(t)
        \/ Filter(t)
        \/ Render(t)

SpecCtx == Init /\ [][NextCtx]_vars

\* SpecIso: two threads, each with its own context, whose calls interleave
IsoBinds(t) ==
    IF t = 1 THEN {("rid" :> "r1")} ELSE {("rid" :> "r2"), ("uid" :> "u1")}

NextIso ==
    \E t \in Threads :
        \/ CfgExclude(t)
        \/ CfgSelect(t)
        \/ CfgInstall(t)
        \/ CfgFlag(t)
        \/ EnsureConfigured(t)
        \/ \E kw \in IsoBinds(t) : BindContext(t, kw)
        \/ UnbindContext(t, {"rid"})
        \/ ClearContext(t)
        \/ LogHelper(t, "log_info", "m", EmptyDict, MaxIsoCalls)
        \/ Call(t)
        \/ Filter(t)
        \/ Render(t)

SpecIso == Init /\ [][NextIso]_vars

(***************************************************************************)
(* Properties                                                              *)
(***************************************************************************)
EmitOps == HelperNames \cup {"held", "logger"}

Levels == {s_debug, s_info, s_warning, s_error}

\* the indices of the output lines that the call with this id printed
LinesOf(id) == {i \in DOMAIN out : out[i].id = id}

\* thread t is back from a log-emitting call that returned normally
Emitted(t) == Idle(t) /\ frame[t].op \in EmitOps /\ frame[t].result = "returned"

\* thread t is back from an explicit configure call
Reconfigured(t) == Idle(t) /\ frame[t].op = "configure" /\ frame[t].result = "returned"

\* the format and the exclusion set that one configure call determines by itself:
\* the argument when given, else the environment's value, else the default
ExpectedFormat(format, env) ==
    IF format # None THEN Lower(Val(format))
    ELSE IF env.MYLOGGER_FORMAT # None THEN Lower(Val(env.MYLOGGER_FORMAT))
    ELSE s_console

ExpectedExclude(exclude, env) ==
    IF exclude # None THEN {Lower(l) : l \in Range(Val(exclude))}
    ELSE IF env.MYLOGGER_EXCLUDE # None THEN ParseExclude(Val(env.MYLOGGER_EXCLUDE))
    ELSE {}

RendererFor(format) == IF format = s_console THEN "console" ELSE "json"

\* how an event of this level would be emitted in the current state
EmitsAs(level) ==
    IF FilterDrops(GetExcludeLevels(exclude_levels, environ), ("level" :> level))
    THEN "dropped" ELSE processors

(* C1: every event is emitted after configure has run: while a thread evaluates
   the logger call, filters or renders, the configured flag is true and the
   chain in use is one that configure installed; no printed line was rendered
   by structlog's unconfigured default chain. *)
C1_ConfiguredBeforeEmission ==
    /\ \A t \in Threads :
          pc[t] \in {"call", "filter", "render"} => configured /\ processors # "default"
    /\ \A t \in Threads : pc[t] \in {"filter", "render"} => frame[t].procs # "default"
    /\ \A i \in DOMAIN out : out[i].renderer # "default"

\* a line was printed by a call that itself ran the implicit configure
C1_Witness ==
    \E t \in Threads :
        /\ frame[t].op \in EmitOps
        /\ frame[t].stage = "rendered"
        /\ frame[t].sel # "none"
        /\ LinesOf(frame[t].id) # {}

(* C2: when a configure call has returned, the active format, the installed
   renderer and the active exclusion set are those the call determines alone:
   a given argument, else the environment's value, else "console" / empty. *)
C2_LastConfigureAlone ==
    \A t \in Threads :
        Reconfigured(t) =>
            /\ GetFormat(log_format, environ) = ExpectedFormat(frame[t].fmt, environ)
            /\ processors = RendererFor(ExpectedFormat(frame[t].fmt, environ))
            /\ GetExcludeLevels(exclude_levels, environ)
                   = ExpectedExclude(frame[t].excl, environ)

(* C3: once configured is true, a change of the environment variables does not
   change whether or how an event of any level is emitted. *)
C3_EnvironmentReadOnce ==
    [][(configured /\ environ' # environ)
           => \A l \in Levels : EmitsAs(l)' = EmitsAs(l)]_vars

(* C4: a returned emission whose level is in the exclusion set in effect printed
   no line; one whose level is not in it printed exactly one line, the last of
   the output; the lines are in the order of the calls. *)
C4_ExcludedLevelsDropped ==
    /\ \A t \in Threads :
          Emitted(t) =>
              IF frame[t].level \in GetExcludeLevels(exclude_levels, environ)
              THEN LinesOf(frame[t].id) = {}
              ELSE LinesOf(frame[t].id) = {Len(out)}
    /\ \A i, j \in DOMAIN out : i < j => out[i].id < out[j].id

\* an emission at an excluded level was dropped after another was printed
C4_Witness ==
    \E t \in Threads :
        /\ Emitted(t)
        /\ frame[t].stage = "dropped"
        /\ frame[t].level \in GetExcludeLevels(exclude_levels, environ)
        /\ Len(out) = 1

(* C9: an event emitted after a configure call returned is rendered with the
   format and filtered with the exclusion set of that most recent call, also
   through a logger obtained earlier and through the module-level logger. *)
C9_LastConfigureWins ==
    \A t \in Threads :
        (Emitted(t) /\ last_configure # None) =>
            LET c == Val(last_configure)
            IN  IF frame[t].level \in ExpectedExclude(c.excl, c.env)
                THEN LinesOf(frame[t].id) = {}
                ELSE \E i \in DOMAIN out :
                        /\ LinesOf(frame[t].id) = {i}
                        /\ out[i].renderer = RendererFor(ExpectedFormat(c.fmt, c.env))

\* the keys of an event that the emitting call and the chain set themselves
OwnKeys(f) == DOMAIN f.kw \cup DOMAIN f.tag \cup {"event", "level", "timestamp"}

\* thread t prints a line in this step
Prints(t) == pc[t] = "render" /\ pc'[t] = "idle"

\* the object of the line printed in this step
Printed == out'[Len(out')].obj

CtxOps == {"bind_context", "unbind_context", "clear_context"}

\* thread t's context changes only by t's own bind, unbind or clear, and as that
\* operation says: bind overwrites the given keys and keeps the others, unbind
\* removes the given keys and keeps the others, clear removes all
ContextStep(t) ==
    ctx'[t] # ctx[t] =>
        \/ /\ frame'[t].op = "bind_context"
           /\ ctx'[t] = [k \in DOMAIN ctx[t] \cup DOMAIN frame'[t].kw |->
                            IF k \in DOMAIN frame'[t].kw THEN frame'[t].kw[k]
                            ELSE ctx[t][k]]
        \/ /\ frame'[t].op = "unbind_context"
           /\ ctx'[t] = [k \in DOMAIN ctx[t] \ DOMAIN frame'[t].kw |-> ctx[t][k]]
        \/ /\ frame'[t].op = "clear_context"
           /\ DOMAIN ctx'[t] = {}

(* C5: every helper call that is not dropped by the level exclusion prints an
   event that carries the helper's tag key with the helper's value and the
   helper's level, whatever fields the caller supplies. *)
C5_HelperTagAndLevel ==
    \A t \in Threads :
        (Idle(t) /\ frame[t].op \in HelperNames) =>
            \/ frame[t].stage = "dropped"
            \/ \E i \in LinesOf(frame[t].id) :
                  /\ out[i].obj["level"] = Helpers[frame[t].op].level
                  /\ \A k \in DOMAIN Helpers[frame[t].op].tag :
                        /\ k \in DOMAIN out[i].obj
                        /\ out[i].obj[k] = Helpers[frame[t].op].tag[k]

(* C6: no log-emitting call raises, whatever fields the caller supplies. *)
C6_EmissionNeverFails ==
    \A t \in Threads : frame[t].op \in EmitOps => frame[t].result # "TypeError"

(* C7: on a line printed in thread t, every key bound in t's context has its
   bound value and no key removed by unbind_context or clear_context appears;
   the context changes only by bind (overwriting), unbind and clear. *)
C7_ContextPersists ==
    [][\A t \in Threads :
          /\ Prints(t) =>
                /\ \A k \in DOMAIN ctx[t] : k \in DOMAIN Printed /\ Printed[k] = ctx[t][k]
                /\ \A k \in unbound[t] : k \notin DOMAIN Printed
          /\ ContextStep(t)]_vars

(* C7 as amended: the same, for the keys that the emitting call does not set
   itself (caller-supplied fields, the helper's tag) and that the chain does
   not set (event, level, timestamp). *)
C7_ContextPersistsUnlessOwnKey ==
    [][\A t \in Threads :
          /\ Prints(t) =>
                /\ \A k \in DOMAIN ctx[t] \ OwnKeys(frame[t]) :
                      k \in DOMAIN Printed /\ Printed[k] = ctx[t][k]
                /\ \A k \in unbound[t] \ OwnKeys(frame[t]) : k \notin DOMAIN Printed
          /\ ContextStep(t)]_vars

\* two lines were printed with a bound key, after another key was unbound
C7_Witness ==
    /\ Len(out) = 2
    /\ \A i \in DOMAIN out : "rid" \in DOMAIN out[i].obj /\ out[i].obj["rid"] = "r1"
    /\ "rid" \in DOMAIN ctx[1]
    /\ "uid" \in unbound[1]
    /\ \A i \in DOMAIN out : "uid" \notin DOMAIN out[i].obj

(* C8: a field of a line printed in thread t that the call and the chain did
   not set comes from t's own context, and a thread's context changes only by
   that thread's own bind, unbind or clear. *)
C8_ContextIsolated ==
    [][\A t \in Threads :
          /\ Prints(t) =>
                \A k \in DOMAIN Printed \ OwnKeys(frame[t]) :
                    k \in DOMAIN ctx[t] /\ Printed[k] = ctx[t][k]
          /\ ContextStep(t)]_vars

\* thread 1 printed its own rid while thread 2 had another rid and a uid bound
C8_Witness ==
    \E i \in DOMAIN out :
        /\ out[i].task = 1
        /\ "rid" \in DOMAIN out[i].obj
        /\ out[i].obj["rid"] = "r1"
        /\ "uid" \notin DOMAIN out[i].obj
        /\ DOMAIN ctx[2] = {"rid", "uid"}
        /\ ctx[2]["rid"] = "r2"

(* C10: in JSON format with info not excluded, log_info(m, **f) prints exactly
   one line whose object has event = m, a level and a timestamp, and every key
   of f with the caller's value. *)
C10_InfoJsonLine ==
    \A t \in Threads :
        (/\ Idle(t)
         /\ frame[t].op = "log_info"
         /\ processors = "json"
         /\ s_info \notin GetExcludeLevels(exclude_levels, environ)) =>
            \E i \in DOMAIN out :
                /\ LinesOf(frame[t].id) = {i}
                /\ out[i].renderer = "json"
                /\ out[i].obj["event"] = frame[t].msg
                /\ {"level", "timestamp"} \subseteq DOMAIN out[i].obj
                /\ \A k \in DOMAIN frame[t].kw :
                      k \in DOMAIN out[i].obj /\ out[i].obj[k] = frame[t].kw[k]

(***************************************************************************)
(* Format resolution                                                       *)
(***************************************************************************)
\* number of log-emitting calls started in one behaviour of SpecFormat
MaxFmtCalls == 1

\* SpecFormat: one thread; configure with known and unknown format strings,
\* in any case, given explicitly or through MYLOGGER_FORMAT
FormatArgs == {None, Some(s_Console), Some(s_JSON), Some(s_XML), Some(s_empty),
               Some(s_console_sp)}

FormatEnvs == {None, Some(s_Console), Some(s_Yaml), Some(s_empty)}

NextFormat ==
    \E t \in {1} :
        \/ \E f \in FormatArgs : Configure(t, f, None)
        \/ CfgExclude(t)
        \/ CfgSelect(t)
        \/ CfgInstall(t)
        \/ CfgFlag(t)
        \/ EnsureConfigured(t)
        \/ LogHelper(t, "log_info", "m", EmptyDict, MaxFmtCalls)
        \/ Call(t)
        \/ Filter(t)
        \/ Render(t)
        \/ \E v \in FormatEnvs : SetEnv(t, "MYLOGGER_FORMAT", v)

SpecFormat == Init /\ [][NextFormat]_vars

\* the lowercased form of each format string of SpecFormat, written out
LoweredFormat ==
    (s_Console :> s_console) @@ (s_JSON :> s_json) @@ (s_XML :> s_xml) @@
    (s_Yaml :> s_yaml) @@ (s_empty :> s_empty) @@ (s_console_sp :> s_console_sp)

\* thread t has run configure to its end, called explicitly or by
\* _ensure_configured, and nothing else since
RanConfigure(t) ==
    /\ frame[t].sel # "none"
    /\ \/ Reconfigured(t)
       \/ frame[t].op \in EmitOps /\ pc[t] = "call"

(* C11: configure never raises; when it has run with an explicit format string
   the stored format is that string lowercased, when it has run with no stored
   format the active format is the lowercased MYLOGGER_FORMAT value ("console"
   when unset); the console chain is installed exactly when that lowercased
   string is "console", the JSON chain for every other string. *)
C11_UnknownFormatsDegradeToJson ==
    \A t \in Threads :
        /\ frame[t].op = "configure" => frame[t].result \in {"running", "returned"}
        /\ RanConfigure(t) =>
              /\ frame[t].fmt # None =>
                    /\ log_format = Some(LoweredFormat[Val(frame[t].fmt)])
                    /\ processors = "console" <=>
                           LoweredFormat[Val(frame[t].fmt)] = s_console
              /\ (frame[t].fmt = None /\ log_format = None) =>
                    LET e == IF environ.MYLOGGER_FORMAT = None THEN s_console
                             ELSE LoweredFormat[Val(environ.MYLOGGER_FORMAT)]
                    IN  /\ GetFormat(log_format, environ) = e
                        /\ processors = "console" <=> e = s_console
              /\ (frame[t].fmt = None /\ log_format # None) =>
                    processors = "console" <=> Val(log_format) = s_console
              /\ processors \in {"console", "json"}

\* configure ran with an unknown explicit format and a line was then printed
\* by the JSON chain
C11_Witness ==
    /\ log_format = Some(s_xml)
    /\ processors = "json"
    /\ \E i \in DOMAIN out : out[i].renderer = "json"
    /\ environ.MYLOGGER_FORMAT = Some(s_Console)

(***************************************************************************)
(* Exclusion levels from the environment                                   *)
(***************************************************************************)
\* number of log-emitting calls started in one behaviour of SpecExclude
MaxExclCalls == 1
\* number of comma-separated entries of a MYLOGGER_EXCLUDE value
MaxEntries == 2

\* entries of a MYLOGGER_EXCLUDE value: the text between two commas, and the
\* level name it stands for (empty when it stands for none), written out
Entries ==
    {[text |-> s_info,                       word |-> s_info],
     [text |-> <<" ","E","r","r","o","r">>,  word |-> s_error],
     [text |-> <<"D","E","B","U","G"," ">>,  word |-> s_debug],
     [text |-> <<"\t","i","n","f","o","\n">>, word |-> s_info],
     [text |-> <<>>,                         word |-> <<>>],
     [text |-> <<" ">>,                      word |-> <<>>]}

EntryLists == UNION {[1..n -> Entries] : n \in 0..MaxEntries}

\* ",".join of the entries' texts
RECURSIVE JoinEntries(_)
JoinEntries(es) ==
    IF es = <<>> THEN <<>>
    ELSE IF Len(es) = 1 THEN es[1].text
    ELSE es[1].text \o <<",">> \o JoinEntries(Tail(es))

\* the level names a list of entries stands for
WordsOf(es) == {es[i].word : i \in {j \in 1..Len(es) : es[j].word # <<>>}}

ExcludeEnvs == {None} \cup {Some(JoinEntries(es)) : es \in EntryLists}

\* the process starts with MYLOGGER_EXCLUDE absent or set to a list of entries
InitExclude ==
    /\ environ \in {[MYLOGGER_FORMAT |-> None, MYLOGGER_EXCLUDE |-> v] : v \in ExcludeEnvs}
    /\ log_format = None
    /\ exclude_levels = None
    /\ configured = FALSE
    /\ processors = "default"
    /\ lazy_instance = FALSE
    /\ holds = [t \in Threads |-> FALSE]
    /\ ctx = [t \in Threads |-> EmptyDict]
    /\ out = <<>>
    /\ ncalls = 0
    /\ last_configure = None
    /\ unbound = [t \in Threads |-> {}]
    /\ pc = [t \in Threads |-> "idle"]
    /\ frame = [t \in Threads |-> NoFrame]

\* SpecExclude: one thread; no exclude argument is ever given, so the
\* exclusion set is the one resolved from MYLOGGER_EXCLUDE
NextExclude ==
    \E t \in {1} :
        \/ \E f \in {None, Some(s_json)} : Configure(t, f, None)
        \/ CfgExclude(t)
        \/ CfgSelect(t)
        \/ CfgInstall(t)
        \/ CfgFlag(t)
        \/ EnsureConfigured(t)
        \/ \E h \in {"log_info", "log_error", "log_warning"} :
               LogHelper(t, h, "m", EmptyDict, MaxExclCalls)
        \/ GetLogger(t)
        \/ GetLoggerReturn(t)
        \/ HeldCall(t, s_debug, "m", EmptyDict, MaxExclCalls)
        \/ Call(t)
        \/ Filter(t)
        \/ Render(t)

SpecExclude == InitExclude /\ [][NextExclude]_vars

(* C12: the exclusion set that the filter resolves from MYLOGGER_EXCLUDE is the
   set of the level names its comma-separated entries stand for (lowercased,
   trimmed, empty entries left out), and the event is dropped exactly when its
   level is one of them; with the variable absent or empty the set is empty
   and the event is printed. *)
C12_EnvExcludeParsed ==
    \A t \in Threads :
        Emitted(t) =>
            /\ \A es \in EntryLists :
                  environ.MYLOGGER_EXCLUDE = Some(JoinEntries(es)) =>
                      /\ frame[t].exclude = WordsOf(es)
                      /\ frame[t].stage = "dropped" <=> frame[t].level \in WordsOf(es)
                      /\ frame[t].stage = "dropped" <=> LinesOf(frame[t].id) = {}
            /\ environ.MYLOGGER_EXCLUDE \in {None, Some(s_empty)} =>
                  /\ frame[t].exclude = {}
                  /\ frame[t].stage = "rendered"
                  /\ LinesOf(frame[t].id) # {}

\* an error event was dropped under the value " Error,", and the set resolved
\* from it has the one element "error"
C12_Witness ==
    \E t \in Threads :
        /\ Emitted(t)
        /\ environ.MYLOGGER_EXCLUDE = Some(<<" ","E","r","r","o","r",",">>)
        /\ frame[t].level = s_error
        /\ frame[t].stage = "dropped"
        /\ frame[t].exclude = {s_error}

(***************************************************************************)
(* Context and configuration                                               *)
(***************************************************************************)
\* number of log-emitting calls started in one behaviour of SpecIndep
MaxIndepCalls == 1

\* SpecIndep: two threads that bind, unbind, clear and emit, while thread 1
\* also reconfigures; all calls interleave statement by statement
NextIndep ==
    \/ \E x \in {None, Some(<<s_INFO>>)} : Configure(1, Some(s_json), x)
    \/ \E t \in Threads :
        \/ CfgExclude(t)
        \/ CfgSelect(t)
        \/ CfgInstall(t)
        \/ CfgFlag(t)
        \/ EnsureConfigured(t)
        \/ \E kw \in IsoBinds(t) : BindContext(t, kw)
        \/ UnbindContext(t, {"rid"})
        \/ ClearContext(t)
        \/ LogHelper(t, "log_info", "m", EmptyDict, MaxIndepCalls)
        \/ Call(t)
        \/ Filter(t)
        \/ Render(t)

SpecIndep == Init /\ [][NextIndep]_vars

\* the positions inside configure
CfgPcs == {"cfg_excl", "cfg_sel", "cfg_install", "cfg_flag"}

\* this step is a call of bind_context, unbind_context or clear_context
ContextOpStep == \E t \in Threads : frame'[t] # frame[t] /\ frame'[t].op \in CtxOps

\* this step enters configure, explicitly or from _ensure_configured, or is a
\* statement of it
ConfigureStep ==
    \E t \in Threads : pc'[t] # pc[t] /\ (pc[t] \in CfgPcs \/ pc'[t] \in CfgPcs)

(* C13: a bind_context, unbind_context or clear_context call leaves the stored
   format, the stored exclusion set, the configured flag, the installed chain
   and the environment unchanged and moves no thread into configure; entering
   configure and each of its statements, and any change of the configuration
   state, leave the context of every thread unchanged. *)
C13_ContextAndConfigIndependent ==
    [][/\ ContextOpStep => (cfgVars' = cfgVars /\ environ' = environ /\ pc' = pc)
       /\ (ConfigureStep \/ cfgVars' # cfgVars) => ctx' = ctx]_vars

\* thread 1's last call is a configure that returned while its context was
\* bound, and thread 2 cleared a context it had bound, under that configuration
C13_Witness ==
    /\ Reconfigured(1)
    /\ log_format = Some(s_json)
    /\ exclude_levels = Some({s_info})
    /\ "rid" \in DOMAIN ctx[1]
    /\ frame[2].op = "clear_context"
    /\ unbound[2] = {"rid", "uid"}
    /\ configured

(* C14: unbind_context returns normally whether or not its keys are bound; it
   keeps every bound key it does not name, with its value, and binds nothing;
   when none of its keys is bound the context of every thread is exactly as
   it was. *)
C14_UnbindAbsentIsNoOp ==
    [][\A t \in Threads :
          (frame'[t] # frame[t] /\ frame'[t].op = "unbind_context") =>
              /\ frame'[t].result = "returned"
              /\ DOMAIN ctx'[t] \subseteq DOMAIN ctx[t]
              /\ \A k \in DOMAIN ctx[t] \ DOMAIN frame'[t].kw :
                    k \in DOMAIN ctx'[t] /\ ctx'[t][k] = ctx[t][k]
              /\ (DOMAIN frame'[t].kw \cap DOMAIN ctx[t] = {}) => ctx' = ctx]_vars

\* the thread's last call was unbind_context("uid", "level") with neither key
\* ever removed from its context, and its other key is still bound
C14_Witness ==
    /\ frame[1].op = "unbind_context"
    /\ DOMAIN frame[1].kw = {"uid", "level"}
    /\ frame[1].result = "returned"
    /\ unbound[1] = {}
    /\ DOMAIN ctx[1] = {"rid"}
    /\ ctx[1]["rid"] = "r2"
    /\ Len(out) = 1

\* configure was entered before, by any thread: a thread is inside it, or it
\* has installed a chain
ConfigureEntered == processors # "default" \/ \E u \in Threads : pc[u] \in CfgPcs

(* C15: with no explicit configure call, the implicit configuration runs exactly
   once: _ensure_configured enters configure only when configure was not
   entered before by any thread. *)
C15_LazyInitOnce ==
    [][\A t \in Threads :
          (pc[t] = "ensure" /\ pc'[t] \in CfgPcs) => ~ConfigureEntered]_vars

(***************************************************************************)
(* Reconfiguration during emission                                         *)
(***************************************************************************)
\* SpecSwap: thread 1 calls configure(format="json", exclude=["INFO"]) while
\* thread 2 emits; before that call the configuration is the default one
\* (console, nothing excluded), set up by the first emission
NextSwap ==
    \/ Configure(1, Some(s_json), Some(<<s_INFO>>))
    \/ \E t \in Threads :
        \/ CfgExclude(t)
        \/ CfgSelect(t)
        \/ CfgInstall(t)
        \/ CfgFlag(t)
        \/ EnsureConfigured(t)
    \/ \E h \in {"log_info", "log_error"} : LogHelper(2, h, "m", EmptyDict, MaxConcCalls)
    \/ Call(2)
    \/ Filter(2)
    \/ Render(2)

SpecSwap == Init /\ [][NextSwap]_vars

\* the (renderer, exclusion set) pair before and after thread 1's configure
OldPair == <<"console", {}>>

NewPair == <<"json", {s_info}>>

(* C16: every event that passed the filter step was processed with the chain
   and the exclusion set of one configuration: the pair in effect before the
   configure call or the pair the call sets, never the renderer of one and
   the exclusion set of the other. *)
C16_ReconfigurationAtomic ==
    \A t \in Threads :
        (frame[t].op \in EmitOps /\ frame[t].stage \in {"filtered", "rendered", "dropped"})
            => <<frame[t].procs, frame[t].exclude>> \in {OldPair, NewPair}

\* the steps of the pipeline in their order: merge ambient context, attach
\* level, level-exclusion filter, attach timestamp, attach extra fields
PipelineOrder ==
    <<"merge_contextvars", "add_log_level", "_filter_by_level", "TimeStamper", "ExtraAdder">>

Renderers == {"ConsoleRenderer", "JSONRenderer"}

(* C17: in console and in JSON mode, an event that was printed passed merge,
   level, filter, timestamp and extra fields in this order and the renderer
   last; an event on its way passed a prefix of them; an event whose level is
   excluded stopped at the filter: it has no timestamp, passed no later step
   and printed nothing. *)
C17_FixedPipelineOrder ==
    \A t \in Threads :
        frame[t].op \in EmitOps =>
            /\ frame[t].stage = "levelled" => frame[t].steps = SubSeq(PipelineOrder, 1, 2)
            /\ frame[t].stage = "filtered" => frame[t].steps = SubSeq(PipelineOrder, 1, 3)
            /\ frame[t].stage = "rendered" =>
                  /\ SubSeq(frame[t].steps, 1, 5) = PipelineOrder
                  /\ frame[t].steps[Len(frame[t].steps)] \in Renderers
                  /\ \A i \in 1..(Len(frame[t].steps) - 1) : frame[t].steps[i] \notin Renderers
                  /\ {"level", "timestamp"} \subseteq DOMAIN frame[t].ev
                  /\ frame[t].level \notin frame[t].exclude
            /\ frame[t].stage = "dropped" =>
                  /\ frame[t].steps = SubSeq(PipelineOrder, 1, 3)
                  /\ "level" \in DOMAIN frame[t].ev
                  /\ "timestamp" \notin DOMAIN frame[t].ev
                  /\ frame[t].level \in frame[t].exclude
                  /\ LinesOf(frame[t].id) = {}

\* after a line was printed by the console chain, an event of an excluded
\* level stopped at the filter of the JSON chain
C17_Witness ==
    \E t \in Threads :
        /\ Emitted(t)
        /\ frame[t].stage = "dropped"
        /\ frame[t].procs = "json"
        /\ frame[t].steps = <<"merge_contextvars", "add_log_level", "_filter_by_level">>
        /\ Len(out) = 1
        /\ out[1].renderer = "console"

(***************************************************************************)
(* The level the filter sees                                               *)
(***************************************************************************)
\* number of log-emitting calls started in one behaviour of SpecLevel
MaxLevelCalls == 1

\* SpecLevel: one thread; a key named level is bound in the context or passed
\* as a field, with the name of an excluded or of a non-excluded level
LevelFields == {EmptyDict, ("level" :> s_info), ("level" :> s_error)}

NextLevel ==
    \E t \in {1} :
        \/ \E x \in {Some(<<s_INFO>>), Some(<<s_error>>)} : Configure(t, Some(s_json), x)
        \/ CfgExclude(t)
        \/ CfgSelect(t)
        \/ CfgInstall(t)
        \/ CfgFlag(t)
        \/ EnsureConfigured(t)
        \/ \E kw \in LevelFields \ {EmptyDict} : BindContext(t, kw)
        \/ ClearContext(t)
        \/ \E h \in {"log_info", "log_error", "log_success"}, kw \in LevelFields :
               LogHelper(t, h, "m", kw, MaxLevelCalls)
        \/ GetLogger(t)
        \/ GetLoggerReturn(t)
        \/ \E kw \in LevelFields : HeldCall(t, s_warning, "m", kw, MaxLevelCalls)
        \/ Call(t)
        \/ Filter(t)
        \/ Render(t)

SpecLevel == Init /\ [][NextLevel]_vars

(* C18: an emission is dropped exactly when the level of the emitting operation
   is in the exclusion set the filter used, whatever value a key named level
   has in the context or among the caller's fields; the filter saw that level,
   and a printed line carries it. *)
C18_FilterUsesOperationLevel ==
    \A t \in Threads :
        Emitted(t) =>
            /\ frame[t].stage = "dropped" <=> frame[t].level \in frame[t].exclude
            /\ frame[t].stage = "rendered" <=> frame[t].level \notin frame[t].exclude
            /\ frame[t].ev["level"] = frame[t].level
            /\ \A i \in LinesOf(frame[t].id) : out[i].obj["level"] = frame[t].level

\* with info excluded, log_error was printed although the context and the
\* caller's fields both had level = "info"
C18_Witness ==
    \E t \in Threads :
        /\ Emitted(t)
        /\ frame[t].op = "log_error"
        /\ frame[t].exclude = {s_info}
        /\ frame[t].kw = ("level" :> s_info)
        /\ "level" \in DOMAIN ctx[t]
        /\ ctx[t]["level"] = s_info
        /\ frame[t].stage = "rendered"
        /\ LinesOf(frame[t].id) # {}

\* thread t executes lines 69-70 of configure in this step
ExcludeStep(t) == pc[t] = "cfg_excl" /\ pc'[t] = "cfg_sel"

(* C19: configure(exclude=[]) stores the empty set, not "none given"; the
   stored empty set is replaced only by a configure call that passes a
   non-empty exclude list, hence not by a call that omits the argument nor by
   a change of MYLOGGER_EXCLUDE; and while it is stored the filter drops no
   event of any level. *)
C19_EmptyExcludeIsExplicit ==
    [][/\ \A t \in Threads :
             (ExcludeStep(t) /\ frame[t].excl = Some(<<>>)) => exclude_levels' = Some({})
       /\ (exclude_levels = Some({}) /\ exclude_levels' # exclude_levels) =>
             \E t \in Threads : ExcludeStep(t) /\ frame[t].excl \notin {None, Some(<<>>)}
       /\ \A t \in Threads :
             (exclude_levels = Some({}) /\ pc[t] = "filter" /\ pc'[t] # pc[t]) =>
                 /\ pc'[t] = "render"
                 /\ frame'[t].stage = "filtered"
                 /\ frame'[t].exclude = {}]_vars

\* an info event was printed under the stored empty set while MYLOGGER_EXCLUDE
\* names info and error
C19_Witness ==
    \E t \in Threads :
        /\ Emitted(t)
        /\ frame[t].level = s_info
        /\ frame[t].stage = "rendered"
        /\ LinesOf(frame[t].id) # {}
        /\ exclude_levels = Some({})
        /\ environ.MYLOGGER_EXCLUDE = Some(s_env_exclude)
        /\ GetExcludeLevels(None, environ) = {s_error, s_info}

====
